---- MODULE Spec2Model ----
(***************************************************************************)
(* A model of the request orchestration of the CallHub client              *)
(* (src/callhub/callhub.py): the batch dispatcher CallHub._handle_requests *)
(* with its single retry round, the paged fetch CallHub._get_paged_data    *)
(* built on it, and the rate limiting that CallHub.__init__ installs on    *)
(* the session methods of every instance.                                  *)
(***************************************************************************)
EXTENDS Integers, Sequences, FiniteSets, TLC

VARIABLES
  \* ---- CallHub._handle_requests: arguments and locals of the running frame
  requests_list,               \* the list of request descriptors being dispatched
  retry,                       \* keyword argument retry
  current_retry_count,         \* keyword argument current_retry_count
  i,                           \* loop index of enumerate(requests_list), 0-based
  requests_awaiting_response,  \* futures submitted since the last barrier
  awaited,                     \* how many of them .result() has returned for
  responses,                   \* local list responses
  errors,                      \* local list errors: <<descriptor, cause>>
  saved_responses,             \* responses of the calling frame during the retry call
  pc,                          \* "loop", "await", "check", "done", "raised"
  \* ---- the remote service and the observations the claims are about
  server,                      \* how the service answers each descriptor in each round
  sent,                        \* per descriptor id: how often it was submitted
  rounds,                      \* number of _handle_requests frames entered
  first_failed,                \* ids whose own first-round response had the wrong status
  transport_failed,            \* ids whose request got no response at all
  in_flight,                   \* the futures submitted and not settled yet
  arrived,                     \* the futures settled whose result has not been read yet
  reordered,                   \* has a request settled before one submitted earlier?
  waves_done,                  \* how often the dispatcher has finished waiting
  \* ---- CallHub._get_paged_data: arguments and locals, and the paged resource
  limit,                       \* argument limit; line 238 lowers it to the total
  first_page,                  \* local first_page, once the service has answered
  paged_data,                  \* the list returned
  pager_pc,                    \* "idle", "start", "first", "dispatch", "returned", "raised"
  raised,                      \* what the fetch raised: "none", "status", "errors", "transport"
  total,                       \* how many items the service holds
  per_page,                    \* how many items the service puts on a page
  \* ---- CallHub.add_dnc, CallHub.remove_dnc: the cache and the remote collection
  dnc_cache,                   \* self.dnc_cache: number -> entries [list_id, dnc_contact_id]
  dnc_contacts,                \* the do-not-contact records the service holds
  next_id,                     \* the id the service gives to the next record it creates
  calls_made,                  \* how many add_dnc and remove_dnc calls have been made
  requested,                   \* the numbers remove_dnc has looked up so far
  last_call,                   \* the last call: its arguments and what it did
  \* ---- CallHub.__init__: the rate limiters wrapped around the session methods
  rate_limit,                  \* argument rate_limit of __init__
  now,                         \* the clock the limiters read
  last_reset,                  \* per limiter <<instance, method>>: start of its window
  num_calls,                   \* per limiter: attempts counted in its current window
  pending,                     \* per instance: the calls its running operation still has to make
  wake,                        \* the caller sleeps (sleep_and_retry) until this time
  issued,                      \* when the caller made the call it is waiting to get through
  admitted,                    \* log of the calls let through, in order
  \* ---- CallHub.bulk_create, create_contact and the single-resource operations
  operation,                   \* the operation called
  contacts,                    \* its contacts: a list of records, each the set of its field names
  account_fields,              \* the names of the fields of the account, as the service has them
  op_pc,                       \* "idle", "start", "checked", "dispatch", "returned", "raised"
  op_raised,                   \* what the operation raised, "none" if nothing
  op_log,                      \* the requests the operation has sent itself, in order
  checked,                     \* _assert_fields_exist: "no", "unread", "passed", "mismatch"
  upload_answer                \* what the service said to the upload of bulk_create

dvars == <<requests_list, retry, current_retry_count, i, requests_awaiting_response,
           awaited, responses, errors, saved_responses, pc, server, sent, rounds,
           first_failed, transport_failed, in_flight, arrived, reordered, waves_done>>

rvars == <<rate_limit, now, last_reset, num_calls, pending, wake, issued, admitted>>

pvars == <<limit, first_page, paged_data, pager_pc, raised, total, per_page>>

cvars == <<dnc_cache, dnc_contacts, next_id, calls_made, requested, last_call>>

ovars == <<operation, contacts, account_fields, op_pc, op_raised, op_log, checked, upload_answer>>

vars == <<dvars, rvars, pvars, cvars, ovars>>

----------------------------------------------------------------------------
(* Bounds of the model *)

\* lists of up to MaxLen descriptors are run against every server behaviour
MaxLen == 3
\* at most MaxFaults (descriptor, round) pairs deviate from the server's default
MaxFaults == 1
\* at most MaxAlt descriptors of a list declare another expectation than 200
MaxAlt == 1
\* lists of batch_size + 1 .. batch_size + ExtraLen descriptors span several waves
ExtraLen == 2
\* the clock runs from 0 to MaxTime
MaxTime == 4
\* a client is let through at most MaxAdmissions operations
MaxAdmissions == 4
\* rate-limit configurations: calls in 1..MaxCalls, period in 1..MaxPeriod ticks
MaxCalls == 2
MaxPeriod == 2
\* paged resources of up to MaxTotal items on pages of up to MaxPageSize items,
\* fetched with a limit of up to MaxLimit items or without one
MaxTotal == 6
MaxPageSize == 2
MaxLimit == 5
\* the service holds up to MaxInitial do-not-contact records when the client is
\* constructed, and the client makes up to MaxDncCalls add_dnc and remove_dnc calls
MaxInitial == 2
MaxDncCalls == 3
\* bulk_create and create_contact: fields of a record, records of a batch
MaxFields == 1
MaxRecords == 2

(* Program constants *)

batch_size == 500
NoStatus == 0          \* expected_status None: falsy in the test of line 286
Status200 == 200
Status201 == 201
Status400 == 400
Status204 == 204
NoLimit == -1          \* limit=float("inf"), the default of _get_paged_data

Outcomes == {"ok", "bad", "down"}
RoundIds == {0, 1}

----------------------------------------------------------------------------
(* Descriptors, the service, responses *)

Descriptor(k, e) == [id |-> k, expected_status |-> e]

\* a list of n descriptors with ids 1..n; alt gives the ids that do not expect 200
MkRequests(n, alt) ==
  [k \in 1..n |-> Descriptor(k, IF k \in DOMAIN alt THEN alt[k] ELSE Status200)]

AltPatterns(n) ==
  UNION {[S -> {Status201, NoStatus}] :
           S \in {T \in SUBSET (1..n) : Cardinality(T) <= MaxAlt}}

FaultSlots(n) == (1..n) \X RoundIds

Servers(n) ==
  IF n <= MaxLen
    THEN UNION {{[default |-> d, faults |-> f] :
                   f \in UNION {[S -> Outcomes \ {d}] :
                                  S \in {T \in SUBSET FaultSlots(n) :
                                           Cardinality(T) <= MaxFaults}}} :
                d \in {"ok", "bad"}}
    ELSE {[default |-> d, faults |-> <<>>] : d \in {"ok", "bad"}}

\* what happens to the request of descriptor d sent in round r
Outcome(d, r) ==
  IF <<d.id, r>> \in DOMAIN server.faults THEN server.faults[<<d.id, r>>]
                                          ELSE server.default

\* the success status of the endpoint of d is the status d declares
SuccessStatus(d) ==
  IF d.expected_status = NoStatus THEN Status200 ELSE d.expected_status

Response(d, o) ==
  [status_code |-> IF o = "ok" THEN SuccessStatus(d) ELSE Status400, request |-> d]

\* does the response differ from what descriptor d expects (line 286)
Unexpected(d, response) ==
  d.expected_status # NoStatus /\ response.status_code # d.expected_status

----------------------------------------------------------------------------
(* CallHub._handle_requests *)

\* the future of the request of d, submitted as requests_list[idx] of round r
\* after w barriers
Future(d, idx, r, w) == [request |-> d, index |-> idx, round |-> r, wave |-> w]

\* line 282: wait for the outstanding requests after this submission?
FlushDueNoBatch(idx, n) == idx = n - 1
FlushDue(idx, n) == idx % batch_size = 0 \/ idx = n - 1

\* lines 283-284: the for loop over requests_awaiting_response has ended
WaveSettledAfterFirst == awaited >= 1
WaveSettled == awaited = Len(requests_awaiting_response)

\* line 299
RetryDueUncapped(errs, rt, count) == errs # <<>> /\ rt
RetryDue(errs, rt, count) == errs # <<>> /\ rt /\ count < 1

\* lines 286-295 name the descriptor by the loop index i of the last submission
BlamedRequest == requests_list[i + 1]

DInit ==
  \E n \in (0..MaxLen) \cup ((batch_size + 1)..(batch_size + ExtraLen)) :
    \E alt \in (IF n <= MaxLen THEN AltPatterns(n) ELSE {<<>>}) :
      \E srv \in Servers(n) :
        \E rt \in BOOLEAN :
          /\ requests_list = MkRequests(n, alt)
          /\ retry = rt
          /\ current_retry_count = 0
          /\ i = 0
          /\ requests_awaiting_response = <<>>
          /\ awaited = 0
          /\ responses = <<>>
          /\ errors = <<>>
          /\ saved_responses = <<>>
          /\ pc = IF n = 0 THEN "check" ELSE "loop"
          /\ server = srv
          /\ sent = [k \in 1..n |-> 0]
          /\ rounds = 1
          /\ first_failed = {}
          /\ transport_failed = {}
          /\ in_flight = {}
          /\ arrived = {}
          /\ reordered = FALSE
          /\ waves_done = 0

\* lines 276-282: submit requests_list[i]
Submit ==
  /\ pc = "loop"
  /\ LET request == requests_list[i + 1]
         fut == Future(request, i, current_retry_count, waves_done)
     IN /\ requests_awaiting_response' = Append(requests_awaiting_response, fut)
        /\ in_flight' = in_flight \cup {fut}
        /\ sent' = [sent EXCEPT ![request.id] = @ + 1]
  /\ IF FlushDue(i, Len(requests_list))
       THEN pc' = "await" /\ i' = i
       ELSE pc' = "loop" /\ i' = i + 1
  /\ UNCHANGED <<rvars, pvars, cvars, ovars>>
  /\ UNCHANGED <<requests_list, retry, current_retry_count, awaited, responses, errors,
                 saved_responses, server, rounds, first_failed, transport_failed,
                 arrived, reordered, waves_done>>

\* the request of future f settles: the service has answered it, or the
\* transport has given up on it. The requests of a list of up to MaxLen
\* descriptors settle at any time and in any order; those of a longer list
\* settle in the order in which the dispatcher waits for them.
Settle(f) ==
  /\ f \in in_flight
  /\ \/ Len(sent) <= MaxLen
     \/ /\ pc = "await"
        /\ ~WaveSettled
        /\ f = requests_awaiting_response[awaited + 1]
  /\ in_flight' = in_flight \ {f}
  /\ arrived' = arrived \cup {f}
  /\ reordered' = (reordered \/ \E g \in in_flight : g.index < f.index)
  /\ UNCHANGED <<rvars, pvars, cvars, ovars>>
  /\ UNCHANGED <<requests_list, retry, current_retry_count, i, requests_awaiting_response,
                 awaited, responses, errors, saved_responses, pc, server, sent, rounds,
                 first_failed, transport_failed, waves_done>>

\* lines 283-295: one iteration of the inner loop; .result() blocks until the
\* request has settled
AwaitResult ==
  /\ pc = "await"
  /\ ~WaveSettled
  /\ requests_awaiting_response[awaited + 1] \in arrived
  /\ LET fut == requests_awaiting_response[awaited + 1]
         o == Outcome(fut.request, fut.round)
         response == Response(fut.request, o)
     IN /\ arrived' = arrived \ {fut}
        /\ IF o = "down"
          THEN \* .result() raises the transport's exception, which is no RuntimeError
               /\ pc' = "raised"
               /\ transport_failed' = transport_failed \cup {fut.request.id}
               /\ UNCHANGED <<awaited, responses, errors, first_failed>>
          ELSE /\ awaited' = awaited + 1
               /\ IF Unexpected(BlamedRequest, response)
                    THEN /\ errors' = Append(errors, <<BlamedRequest, response>>)
                         /\ UNCHANGED responses
                    ELSE /\ responses' = Append(responses, response)
                         /\ UNCHANGED errors
               /\ first_failed' =
                    IF fut.round = 0 /\ Unexpected(fut.request, response)
                      THEN first_failed \cup {fut.request.id} ELSE first_failed
               /\ UNCHANGED <<pc, transport_failed>>
  /\ UNCHANGED <<rvars, pvars, cvars, ovars>>
  /\ UNCHANGED <<requests_list, retry, current_retry_count, i, requests_awaiting_response,
                 saved_responses, server, sent, rounds, in_flight, reordered, waves_done>>

\* line 297 and the next iteration of the outer loop
EndWave ==
  /\ pc = "await"
  /\ WaveSettled
  /\ requests_awaiting_response' = <<>>
  /\ awaited' = 0
  /\ i' = i + 1
  /\ pc' = IF i + 1 = Len(requests_list) THEN "check" ELSE "loop"
  /\ waves_done' = waves_done + 1
  /\ UNCHANGED <<rvars, pvars, cvars, ovars>>
  /\ UNCHANGED <<requests_list, retry, current_retry_count, responses, errors,
                 saved_responses, server, sent, rounds, first_failed, transport_failed,
                 in_flight, arrived, reordered>>

\* lines 299-301: the recursive call with the descriptors of the errors
Retry ==
  /\ pc = "check"
  /\ RetryDue(errors, retry, current_retry_count)
  /\ saved_responses' = responses
  /\ requests_list' = [k \in 1..Len(errors) |-> errors[k][1]]
  /\ retry' = TRUE
  /\ current_retry_count' = current_retry_count + 1
  /\ i' = 0
  /\ requests_awaiting_response' = <<>>
  /\ awaited' = 0
  /\ responses' = <<>>
  /\ errors' = <<>>
  /\ rounds' = rounds + 1
  /\ pc' = "loop"
  /\ UNCHANGED <<rvars, pvars, cvars, ovars>>
  /\ UNCHANGED <<server, sent, first_failed, transport_failed, in_flight, arrived,
                 reordered, waves_done>>

\* line 302: responses = responses + new_responses
CombinedNewOnly(saved, new) == new
Combined(saved, new) == saved \o new

\* line 304, and line 302 in the calling frame when this is the retry call
Return ==
  /\ pc = "check"
  /\ ~RetryDue(errors, retry, current_retry_count)
  /\ responses' = Combined(saved_responses, responses)
  /\ saved_responses' = <<>>
  /\ pc' = "done"
  /\ UNCHANGED <<rvars, pvars, cvars, ovars>>
  /\ UNCHANGED <<requests_list, retry, current_retry_count, i, requests_awaiting_response,
                 awaited, errors, server, sent, rounds, first_failed, transport_failed,
                 in_flight, arrived, reordered, waves_done>>

\* no dispatch is running
DIdle ==
  /\ requests_list = <<>>
  /\ retry = FALSE
  /\ current_retry_count = 0
  /\ i = 0
  /\ requests_awaiting_response = <<>>
  /\ awaited = 0
  /\ responses = <<>>
  /\ errors = <<>>
  /\ saved_responses = <<>>
  /\ pc = "done"
  /\ server = [default |-> "ok", faults |-> <<>>]
  /\ sent = <<>>
  /\ rounds = 0
  /\ first_failed = {}
  /\ transport_failed = {}
  /\ in_flight = {}
  /\ arrived = {}
  /\ reordered = FALSE
  /\ waves_done = 0

----------------------------------------------------------------------------
(* CallHub._get_paged_data *)

Min(a, b) == IF a <= b THEN a ELSE b

\* the items of the resource are numbered 1..total in the order of the service;
\* page k holds the items (k-1) * per_page + 1 .. k * per_page that exist
PageItems(k) ==
  [j \in 1..(Min(k * per_page, total) - Min((k - 1) * per_page, total)) |->
     (k - 1) * per_page + j]

\* response.json()["results"] of the response to a page request
Results(response) == PageItems(response.request.id)

\* line 238: min(first_page["count"], limit)
CappedLimit(cnt, lim) == IF lim = NoLimit THEN cnt ELSE Min(cnt, lim)

\* line 242: math.ceil(limit / page_size)
NumPagesFloor(lim, page_size) == lim \div page_size
NumPages(lim, page_size) == (lim + page_size - 1) \div page_size

\* lines 244-248: one get of the url per page 1..num_pages, expecting 200
PageRequests(num_pages) == [k \in 1..num_pages |-> Descriptor(k, Status200)]

\* how the service answers the page requests: as Servers, the first time only
PageServers(n) ==
  {srv \in Servers(n) : \A slot \in DOMAIN srv.faults : slot[2] = 0}

\* line 235: return []
NothingFetchedButFirstPage == PageItems(1)
NothingFetched == <<>>

\* line 250
AbortDueNever(errs) == FALSE
AbortDue(errs) == errs # <<>>

\* lines 254-256: the results of the responses, one after the other
RECURSIVE Concatenated(_)
Concatenated(resps) ==
  IF resps = <<>> THEN <<>>
                  ELSE Results(Head(resps)) \o Concatenated(Tail(resps))

\* line 257: paged_data[:limit]
TruncatedNot(data, lim) == data
Truncated(data, lim) == SubSeq(data, 1, Min(Len(data), lim))

\* the resources and limits of the tests of get_all_contacts
TestedFetches ==
  {[count |-> 55, per_page |-> 2, limit |-> 49],
   [count |-> 55, per_page |-> 2, limit |-> 50],
   [count |-> 40, per_page |-> 2, limit |-> 50]}

Fetches ==
  [count : 0..MaxTotal, per_page : 1..MaxPageSize, limit : (0..MaxLimit) \cup {NoLimit}]
  \cup TestedFetches

\* _get_paged_data(url, limit) is called
PInit ==
  \E fetch \in Fetches :
    /\ limit = fetch.limit
    /\ total = fetch.count
    /\ per_page = fetch.per_page
    /\ first_page = <<>>
    /\ paged_data = <<>>
    /\ pager_pc = "start"
    /\ raised = "none"

\* no paged fetch is running
PIdle ==
  /\ limit = NoLimit
  /\ total = 0
  /\ per_page = 1
  /\ first_page = <<>>
  /\ paged_data = <<>>
  /\ pager_pc = "idle"
  /\ raised = "none"

\* lines 225-235: get the first page; raise unless it is a 200; return the
\* empty list when there is nothing to fetch
GetFirstPage ==
  /\ pager_pc = "start"
  /\ \E o \in Outcomes :
       \/ /\ o = "down"
          /\ pager_pc' = "raised"
          /\ raised' = "transport"
          /\ UNCHANGED <<first_page, paged_data>>
       \/ /\ o = "bad"
          /\ first_page' = [status_code |-> Status400]
          /\ pager_pc' = "raised"
          /\ raised' = "status"
          /\ UNCHANGED paged_data
       \/ /\ o = "ok"
          /\ first_page' = [status_code |-> Status200, count |-> total,
                            results |-> PageItems(1)]
          /\ IF first_page'.count = 0 \/ limit = 0
               THEN pager_pc' = "returned" /\ paged_data' = NothingFetched
               ELSE pager_pc' = "first" /\ UNCHANGED paged_data
          /\ UNCHANGED raised
  /\ UNCHANGED <<limit, total, per_page>>
  /\ UNCHANGED <<dvars, rvars, cvars, ovars>>

\* lines 238-249: build the page requests and call _handle_requests(requests)
RequestPages ==
  /\ pager_pc = "first"
  /\ LET lim == CappedLimit(first_page.count, limit)
         page_size == Len(first_page.results)
         num_pages == NumPages(lim, page_size)
     IN /\ limit' = lim
        /\ requests_list' = PageRequests(num_pages)
        /\ sent' = [k \in 1..num_pages |-> 0]
        /\ \E srv \in PageServers(num_pages) : server' = srv
  /\ retry' = FALSE
  /\ current_retry_count' = 0
  /\ i' = 0
  /\ requests_awaiting_response' = <<>>
  /\ awaited' = 0
  /\ responses' = <<>>
  /\ errors' = <<>>
  /\ saved_responses' = <<>>
  /\ pc' = IF requests_list' = <<>> THEN "check" ELSE "loop"
  /\ rounds' = 1
  /\ pager_pc' = "dispatch"
  /\ UNCHANGED <<first_failed, transport_failed, in_flight, arrived, reordered, waves_done>>
  /\ UNCHANGED <<first_page, paged_data, raised, total, per_page>>
  /\ UNCHANGED <<rvars, cvars, ovars>>

\* lines 250-257: raise the errors, or put the results together
Aggregate ==
  /\ pager_pc = "dispatch"
  /\ pc = "done"
  /\ IF AbortDue(errors)
       THEN /\ pager_pc' = "raised"
            /\ raised' = "errors"
            /\ UNCHANGED paged_data
       ELSE /\ paged_data' = Truncated(Concatenated(responses), limit)
            /\ pager_pc' = "returned"
            /\ UNCHANGED raised
  /\ UNCHANGED <<limit, first_page, total, per_page>>
  /\ UNCHANGED <<dvars, rvars, cvars, ovars>>

\* line 249: an exception out of _handle_requests leaves _get_paged_data too
Propagate ==
  /\ pager_pc = "dispatch"
  /\ pc = "raised"
  /\ pager_pc' = "raised"
  /\ raised' = "transport"
  /\ UNCHANGED <<limit, first_page, paged_data, total, per_page>>
  /\ UNCHANGED <<dvars, rvars, cvars, ovars>>

----------------------------------------------------------------------------
(* CallHub.add_dnc, CallHub.remove_dnc and the cache self.dnc_cache *)

Phones == {"16135550001", "16135550002"}
DncLists == {"5543", "8794"}
NoList == ""           \* dnc_list=None: remove from every list

Record(id, phone, list) == [id |-> id, phone |-> phone, list |-> list]

\* get_dnc_phones (lines 326-339, 314-323): all records of the service, as
\* number -> entries
DncPhones(records) ==
  [phone \in {r.phone : r \in records} |->
     {[list_id |-> r.list, dnc_contact_id |-> r.id] : r \in {q \in records : q.phone = phone}}]

\* line 387: must the cache be fetched anew?
NeedsRebuildAlways(numbers, cache) == TRUE
NeedsRebuildNever(numbers, cache) == FALSE
NeedsRebuild(numbers, cache) == ~(numbers \subseteq DOMAIN cache)

\* line 388: self.dnc_cache = self.get_dnc_phones()
RebuiltOnTopOfOld(cache, fetched) ==
  [phone \in DOMAIN cache \cup DOMAIN fetched |->
     (IF phone \in DOMAIN cache THEN cache[phone] ELSE {})
       \cup (IF phone \in DOMAIN fetched THEN fetched[phone] ELSE {})]
Rebuilt(cache, fetched) == fetched

\* lines 390-396: the ids of the entries of the numbers, on dnc_list if given
IdsToPurge(numbers, dnc_list, cache) ==
  {e.dnc_contact_id :
     e \in {x \in UNION {cache[number] : number \in numbers \cap DOMAIN cache} :
              dnc_list = NoList \/ x.list_id = dnc_list}}

\* line 387: set(numbers)
AsSet(numbers) == {numbers[k] : k \in DOMAIN numbers}

\* lines 390-405: the delete requests, one for each entry selected by each
\* member of the list numbers: per id, how many requests are sent for it
DeleteRequests(numbers, dnc_list, cache) ==
  [id \in IdsToPurge(AsSet(numbers), dnc_list, cache) |->
     Cardinality({k \in DOMAIN numbers : id \in IdsToPurge({numbers[k]}, dnc_list, cache)})]

\* line 388: an exception out of get_dnc_phones leaves remove_dnc before the
\* assignment to self.dnc_cache
CacheAfterFailedFetchCleared(cache) == <<>>
CacheAfterFailedFetch(cache) == cache

\* line 392: self.dnc_cache[number] raises KeyError for a number without entry
LookupFailsNever(asked, cache) == FALSE
LookupFails(asked, cache) == ~(asked \subseteq DOMAIN cache)

\* the lists of numbers remove_dnc is called with: a number may be given twice
NumberLists == UNION {[1..n -> Phones] : n \in 1..Cardinality(Phones)}

\* the lists that give no number twice
DistinctNumberLists ==
  {numbers \in NumberLists : Cardinality(AsSet(numbers)) = Len(numbers)}

\* lines 398-406: the deletions are dispatched and their errors returned;
\* self.dnc_cache is not assigned to
CacheAfterDeletesPurged(cache, ids) ==
  [phone \in {q \in DOMAIN cache : \E e \in cache[q] : e.dnc_contact_id \notin ids} |->
     {e \in cache[phone] : e.dnc_contact_id \notin ids}]
CacheAfterDeletes(cache, ids) == cache

NoCall ==
  [op |-> "none", numbers |-> {}, dnc_list |-> NoList, missed |-> FALSE,
   fetches |-> 0, outcome |-> "none", cache_before |-> <<>>, contacts_before |-> {},
   requested_before |-> {}, created |-> {}, deleted |-> {}, deletes |-> <<>>,
   errors |-> {},
   right_after_add |-> FALSE, just_added |-> {},
   snapshot_before |-> {}, snapshot |-> {}]

\* the numbers on the lists, in some order
Listings ==
  <<[phone |-> "16135550001", list |-> "5543"], [phone |-> "16135550001", list |-> "8794"],
    [phone |-> "16135550002", list |-> "5543"], [phone |-> "16135550002", list |-> "8794"]>>

\* the records of the service when the client is constructed: up to MaxInitial
\* listings, with the ids 1, 2, ... in their order
InitialContacts ==
  {{Record(Cardinality({j \in chosen : j <= k}), Listings[k].phone, Listings[k].list) :
      k \in chosen} :
     chosen \in {c \in SUBSET DOMAIN Listings : Cardinality(c) <= MaxInitial}}

\* line 66 of __init__: the cache starts empty
CInit ==
  \E records \in InitialContacts :
    /\ dnc_contacts = records
    /\ dnc_cache = <<>>
    /\ next_id = Cardinality(records) + 1
    /\ calls_made = 0
    /\ requested = {}
    /\ last_call = NoCall

\* no client with a cache is running
CIdle ==
  /\ dnc_contacts = {}
  /\ dnc_cache = <<>>
  /\ next_id = 1
  /\ calls_made = 0
  /\ requested = {}
  /\ last_call = NoCall

\* lines 342-367: add_dnc(phone_numbers, dnc_list_id); the service creates a
\* record for the numbers in ok and refuses the others, also when re-sent
AddDnc(numbers, dnc_list_id) ==
  /\ calls_made < MaxDncCalls
  /\ \E ok \in SUBSET numbers :
       LET id_of == CHOOSE f \in [ok -> next_id..(next_id + Cardinality(ok) - 1)] :
                      \A a, b \in ok : f[a] = f[b] => a = b
       IN \E created \in {{Record(id_of[number], number, dnc_list_id) : number \in ok}} :
          /\ dnc_contacts' = dnc_contacts \cup created
          /\ next_id' = next_id + Cardinality(ok)
          /\ last_call' =
               [NoCall EXCEPT !.op = "add_dnc", !.numbers = numbers,
                              !.dnc_list = dnc_list_id, !.outcome = "returned",
                              !.cache_before = dnc_cache,
                              !.contacts_before = dnc_contacts,
                              !.requested_before = requested,
                              !.created = {r.id : r \in created},
                              !.errors = numbers \ ok,
                              !.snapshot_before = last_call.snapshot,
                              !.snapshot = last_call.snapshot]
  /\ calls_made' = calls_made + 1
  /\ UNCHANGED <<dnc_cache, requested>>
  /\ UNCHANGED <<dvars, rvars, pvars, ovars>>

\* lines 370-406: remove_dnc(numbers, dnc_list); the fetch of get_dnc_phones
\* succeeds or raises, and the service deletes the records it holds and
\* answers 404 for the others, a second delete of one record included.
\* numbers is a list. last_call.snapshot is the records of the last
\* fetch that succeeded.
RemoveDnc(numbers, dnc_list) ==
  /\ calls_made < MaxDncCalls
  /\ \E fetch_ok \in BOOLEAN :
       LET asked == AsSet(numbers)
           missed == NeedsRebuild(asked, dnc_cache)
           held == {r.id : r \in dnc_contacts}
       IN \E cache \in {IF ~missed THEN dnc_cache
                        ELSE IF fetch_ok THEN Rebuilt(dnc_cache, DncPhones(dnc_contacts))
                        ELSE CacheAfterFailedFetch(dnc_cache)} :
          \E outcome \in {IF missed /\ ~fetch_ok THEN "RuntimeError"
                          ELSE IF LookupFails(asked, cache) THEN "KeyError"
                          ELSE "returned"} :
          \E deletes \in {IF outcome = "returned"
                            THEN DeleteRequests(numbers, dnc_list, cache) ELSE <<>>} :
          \E ids \in {DOMAIN deletes} :
          /\ (~missed => fetch_ok)
          /\ dnc_cache' = CacheAfterDeletes(cache, ids)
          /\ dnc_contacts' = {r \in dnc_contacts : r.id \notin ids}
          /\ last_call' =
               [NoCall EXCEPT !.op = "remove_dnc", !.numbers = asked,
                              !.dnc_list = dnc_list, !.missed = missed,
                              !.fetches = IF missed THEN 1 ELSE 0,
                              !.outcome = outcome,
                              !.cache_before = dnc_cache,
                              !.contacts_before = dnc_contacts,
                              !.requested_before = requested,
                              !.deleted = ids,
                              !.deletes = deletes,
                              !.errors = {id \in ids : id \notin held \/ deletes[id] > 1},
                              !.right_after_add =
                                 /\ last_call.op = "add_dnc"
                                 /\ last_call.numbers = asked
                                 /\ last_call.dnc_list = dnc_list
                                 /\ last_call.errors = {},
                              !.just_added = last_call.created,
                              !.snapshot_before = last_call.snapshot,
                              !.snapshot = IF missed /\ fetch_ok THEN dnc_contacts
                                                                ELSE last_call.snapshot]
          /\ requested' = IF outcome = "RuntimeError" THEN requested
                                                      ELSE requested \cup asked
  /\ calls_made' = calls_made + 1
  /\ UNCHANGED next_id
  /\ UNCHANGED <<dvars, rvars, pvars, ovars>>

----------------------------------------------------------------------------
(* CallHub.__init__: sleep_and_retry(limits(calls, period)(method))         *)
(*                                                                         *)
(* limits and sleep_and_retry are the decorators of the package ratelimit  *)
(* (setup.py pins ratelimit==2.2.1).  An object limits(calls, period)      *)
(* keeps last_reset, set to the clock when it is constructed, and          *)
(* num_calls.  Each call reads period_remaining = period - (clock() -      *)
(* last_reset); if that is <= 0 it sets num_calls to 0 and last_reset to   *)
(* the clock; it then adds 1 to num_calls and, if num_calls exceeds calls, *)
(* raises RateLimitException(period_remaining), else calls the method.     *)
(* sleep_and_retry catches the exception, sleeps period_remaining and      *)
(* calls again.  Time is counted in ticks.                                 *)

\* the methods a caller reaches the service through
Methods == {"get", "post", "delete", "bulk_create"}

\* lines 50, 54 and 58 each construct a limiter of their own; none wraps delete
Limiters == {"get", "post", "bulk_create"}

\* the rate-limit class whose configuration a method is limited by
ClassOf(m) == IF m = "bulk_create" THEN "BULK_CREATE" ELSE "GENERAL"

\* line 48: the wrappers are installed if rate_limit is true
LimitedWhateverTheArgument(m) == m \in Limiters
Limited(m) == rate_limit.enabled /\ m \in Limiters

Calls(m) == rate_limit[ClassOf(m)].calls
Period(m) == rate_limit[ClassOf(m)].period

\* the CallHub instances of the process
Clients == DOMAIN pending

\* the limiter object that wraps method m of instance c: __init__ constructs
\* the limits objects anew for every instance
LimiterShared(c, m) == <<1, m>>
LimiterOf(c, m) == <<c, m>>

\* limits: period - (clock() - last_reset)
PeriodRemaining(c, m) == Period(m) - (now - last_reset[LimiterOf(c, m)])

\* the calls an operation makes, in order, the call of the operation itself
\* first: bulk_create (lines 158-170) reads the fields twice and posts, or stops
\* after the first read with LookupError
Programs(m) ==
  LET own == [method |-> m, op |-> TRUE]
      inner(n) == [method |-> n, op |-> FALSE]
  IN IF m = "bulk_create"
       THEN {<<own, inner("get"), inner("get"), inner("post")>>, <<own, inner("get")>>}
       ELSE {<<own>>}

\* the rate_limit arguments a client is constructed with: False, or a budget of
\* calls per period for GENERAL and of one call per period for BULK_CREATE
RateLimits ==
  {[enabled |-> FALSE,
    GENERAL |-> [calls |-> 1, period |-> 1],
    BULK_CREATE |-> [calls |-> 1, period |-> 1]]}
  \cup
  {[enabled |-> TRUE, GENERAL |-> g, BULK_CREATE |-> b] :
     g \in [calls : 1..MaxCalls, period : 1..MaxPeriod],
     b \in [calls : {1}, period : 1..MaxPeriod]}

\* an entry of the log: instance c was let through to method m at the time t,
\* having called it at the time asked; op: the call is an operation of the
\* caller, not a call made inside bulk_create; by: the limiter that counted it
Admission(c, m, t, asked, op) ==
  [client |-> c, method |-> m, time |-> t, issued |-> asked, op |-> op,
   by |-> IF Limited(m) THEN LimiterOf(c, m) ELSE <<>>]

\* TESTING_API_LIMIT of the tests, a tick being 0.1 s
TestedRateLimits ==
  {[enabled |-> TRUE,
    GENERAL |-> [calls |-> 1, period |-> 1],
    BULK_CREATE |-> [calls |-> 1, period |-> 2]]}

\* the state after __init__ of the instances cs at time 0, each constructed
\* with one rate_limit of rls: the limiters are constructed, and
\* validate_api_key (lines 63, 110) has made one get
RInitOf(cs, rls) ==
  \E rl \in rls :
    /\ rate_limit = rl
    /\ now = 0
    /\ last_reset = [l \in cs \X Limiters |-> 0]
    /\ num_calls = [l \in cs \X Limiters |-> IF l[2] = "get" /\ rl.enabled THEN 1 ELSE 0]
    /\ pending = [c \in cs |-> <<>>]
    /\ wake = [c \in cs |-> 0]
    /\ issued = [c \in cs |-> 0]
    /\ admitted =
         [c \in cs |->
            [client |-> c, method |-> "get", time |-> 0, issued |-> 0, op |-> FALSE,
             by |-> IF rl.enabled THEN <<c, "get">> ELSE <<>>]]

RInit == RInitOf({1}, RateLimits)

\* no client is making calls
RIdle ==
  /\ rate_limit = [enabled |-> FALSE,
                   GENERAL |-> [calls |-> 1, period |-> 1],
                   BULK_CREATE |-> [calls |-> 1, period |-> 1]]
  /\ now = 0
  /\ last_reset = <<>>
  /\ num_calls = <<>>
  /\ pending = <<>>
  /\ wake = <<>>
  /\ issued = <<>>
  /\ admitted = <<>>

\* a client that has a call to make and is not asleep
RunnableUntilFirstSleep(c) == pending[c] # <<>> /\ now >= wake[c] /\ wake[c] = 0
Runnable(c) == pending[c] # <<>> /\ now >= wake[c]

\* time passes while every client is idle or asleep: the calls themselves take
\* no time
Tick ==
  /\ now < MaxTime
  /\ \A c \in Clients : ~Runnable(c)
  /\ now' = now + 1
  /\ UNCHANGED <<rate_limit, last_reset, num_calls, pending, wake, issued, admitted>>
  /\ UNCHANGED <<dvars, pvars, cvars, ovars>>

\* client c starts an operation
Call(c, m) ==
  /\ pending[c] = <<>>
  /\ Len(admitted) < MaxAdmissions
  /\ \E prog \in Programs(m) : pending' = [pending EXCEPT ![c] = prog]
  /\ issued' = [issued EXCEPT ![c] = now]
  /\ UNCHANGED <<rate_limit, now, last_reset, num_calls, wake, admitted>>
  /\ UNCHANGED <<dvars, pvars, cvars, ovars>>

\* one pass of the wrapper of limits under sleep_and_retry for the next call of c
Attempt(c) ==
  /\ Runnable(c)
  /\ LET m == Head(pending[c]).method
         let_through ==
           /\ admitted' = Append(admitted,
                Admission(c, m, now, issued[c], Head(pending[c]).op))
           /\ pending' = [pending EXCEPT ![c] = Tail(@)]
           /\ issued' = [issued EXCEPT ![c] = now]
     IN IF ~Limited(m)
          THEN /\ let_through
               /\ UNCHANGED <<last_reset, num_calls, wake>>
          ELSE LET l == LimiterOf(c, m)
                   remaining == PeriodRemaining(c, m)
                   reset == remaining <= 0
                   n == (IF reset THEN 0 ELSE num_calls[l]) + 1
               IN /\ num_calls' = [num_calls EXCEPT ![l] = n]
                  /\ last_reset' = [last_reset EXCEPT ![l] = IF reset THEN now ELSE @]
                  /\ IF n > Calls(m)
                       THEN \* RateLimitException(period_remaining): sleep, retry
                            /\ wake' = [wake EXCEPT ![c] = now + remaining]
                            /\ UNCHANGED <<pending, issued, admitted>>
                       ELSE /\ let_through
                            /\ UNCHANGED wake
  /\ UNCHANGED <<rate_limit, now>>
  /\ UNCHANGED <<dvars, pvars, cvars, ovars>>

----------------------------------------------------------------------------
(* CallHub.bulk_create, CallHub.create_contact and the operations on a single
   resource *)

\* field names are sequences of letters: three spellings of one name, two of
\* another
FieldNames ==
  {<<"c", "f">>, <<"C", "f">>, <<"C", "F">>, <<"p", "n">>, <<"P", "n">>}

\* lines 93-94: str.lower, letter by letter
LowerKeepsCase(ch) == ch
Lower(ch) ==
  IF ch = "C" THEN "c" ELSE IF ch = "F" THEN "f" ELSE IF ch = "P" THEN "p" ELSE ch

LowerName(name) == [k \in 1..Len(name) |-> Lower(name[k])]

\* the other way round: upper case, letter by letter
Upper(ch) ==
  IF ch = "c" THEN "C" ELSE IF ch = "f" THEN "F" ELSE IF ch = "p" THEN "P"
  ELSE IF ch = "n" THEN "N" ELSE ch

UpperName(name) == [k \in 1..Len(name) |-> Upper(name[k])]

\* lines 83-86: an account never has two fields that differ in case only
Accounts ==
  {S \in SUBSET FieldNames :
     \A a, b \in S : UpperName(a) = UpperName(b) => a = b}

Records == {S \in SUBSET FieldNames : Cardinality(S) >= 1 /\ Cardinality(S) <= MaxFields}

Batches == UNION {[1..n -> Records] : n \in 1..MaxRecords}

\* lines 71-77: _collect_fields
CollectFields(cs) == UNION {cs[k] : k \in 1..Len(cs)}

\* lines 89-100: the test of _assert_fields_exist, given the fields read
FieldsExistAlways(cs, known) == TRUE
FieldsExist(cs, known) ==
  {LowerName(f) : f \in CollectFields(cs)} \subseteq {LowerName(f) : f \in known}

CreateOps == {"create_dnc_list", "create_phonebook", "create_webhook", "create_contact"}
DeleteOps == {"remove_dnc_list", "remove_webhook"}
SingleOps == CreateOps \cup DeleteOps
CheckedOps == {"bulk_create", "create_contact"}
Operations == SingleOps \cup {"bulk_create"}

\* the "expected_status" of the one descriptor of a single-resource operation
ExpectedStatus(o) == IF o \in DeleteOps THEN Status204 ELSE Status201

\* the requests an operation sends itself, without _handle_requests
FieldsRequest == [method |-> "get", url |-> "/v1/contacts/fields/"]
UploadRequest == [method |-> "post", url |-> "/v1/contacts/bulk_create/"]

\* what the service says to an upload: body["message"], body["detail"], or
\* neither; or the request gets no response
NoAnswer == "none"
InProgress == "Import in progress"
Throttled == "Request was throttled"
NotSuccessful == "not successful"
NoResponse == "no response"
UploadAnswers == {InProgress, Throttled, NotSuccessful, NoResponse}

\* lines 170-178: what bulk_create does with the answer to its upload
UploadResultThrottleIgnored(answer) ==
  IF answer = NoResponse THEN "transport"
  ELSE IF answer \in {InProgress, Throttled} THEN "returned"
  ELSE "RuntimeError: not successful"
UploadResult(answer) ==
  IF answer = NoResponse THEN "transport"
  ELSE IF answer = InProgress THEN "returned"
  ELSE IF answer = Throttled THEN "RuntimeError: throttled"
  ELSE "RuntimeError: not successful"

\* "if errors: raise RuntimeError(errors)" of the single-resource operations
RaiseDueNever(errs) == FALSE
RaiseDue(errs) == errs # <<>>

\* an operation has been called and has not taken a step yet
OInit ==
  \E o \in Operations, known \in Accounts :
    \E cs \in (IF o = "bulk_create" THEN Batches
               ELSE IF o = "create_contact" THEN [1..1 -> Records]
               ELSE {<<>>}) :
      /\ operation = o
      /\ contacts = cs
      /\ account_fields = known
      /\ op_pc = "start"
      /\ op_raised = "none"
      /\ op_log = <<>>
      /\ checked = "no"
      /\ upload_answer = NoAnswer

\* no operation is running
OIdle ==
  /\ operation = "none"
  /\ contacts = <<>>
  /\ account_fields = {}
  /\ op_pc = "idle"
  /\ op_raised = "none"
  /\ op_log = <<>>
  /\ checked = "no"
  /\ upload_answer = NoAnswer

\* lines 79-100: _assert_fields_exist, called first by bulk_create (line 158)
\* and by create_contact (line 191). self.fields() sends a GET; if the answer
\* has no "results" (or there is no answer) the read raises before anything is
\* compared.
CheckFields ==
  /\ op_pc = "start"
  /\ operation \in CheckedOps
  /\ op_log' = Append(op_log, FieldsRequest)
  /\ \E served \in BOOLEAN :
       IF ~served
         THEN checked' = "unread" /\ op_pc' = "raised" /\ op_raised' = "KeyError"
         ELSE IF FieldsExist(contacts, account_fields)
                THEN checked' = "passed" /\ op_pc' = "checked" /\ UNCHANGED op_raised
                ELSE /\ checked' = "mismatch"
                     /\ op_pc' = "raised"
                     /\ op_raised' = "LookupError"
  /\ UNCHANGED <<operation, contacts, account_fields, upload_answer>>
  /\ UNCHANGED <<dvars, rvars, pvars, cvars>>

\* lines 159-178: bulk_create reads the fields again for the column mapping,
\* posts the file once and looks at the body of the answer
Upload ==
  /\ op_pc = "checked"
  /\ operation = "bulk_create"
  /\ \E served \in BOOLEAN, answer \in UploadAnswers :
       IF ~served
         THEN /\ op_log' = Append(op_log, FieldsRequest)
              /\ op_pc' = "raised"
              /\ op_raised' = "KeyError"
              /\ UNCHANGED upload_answer
         ELSE /\ op_log' = op_log \o <<FieldsRequest, UploadRequest>>
              /\ upload_answer' = answer
              /\ op_pc' = IF UploadResult(answer) = "returned" THEN "returned" ELSE "raised"
              /\ op_raised' = IF UploadResult(answer) = "returned" THEN "none"
                                                                   ELSE UploadResult(answer)
  /\ UNCHANGED <<operation, contacts, account_fields, checked>>
  /\ UNCHANGED <<dvars, rvars, pvars, cvars>>

\* lines 192-197, 416-421, 432-437, 463-467, 484-489, 510-514: the operation
\* calls _handle_requests with its one descriptor and without retry
DispatchOne ==
  /\ operation \in SingleOps
  /\ op_pc = (IF operation \in CheckedOps THEN "checked" ELSE "start")
  /\ requests_list' = <<Descriptor(1, ExpectedStatus(operation))>>
  /\ sent' = <<0>>
  /\ \E o \in Outcomes : server' = [default |-> o, faults |-> <<>>]
  /\ retry' = FALSE
  /\ current_retry_count' = 0
  /\ i' = 0
  /\ requests_awaiting_response' = <<>>
  /\ awaited' = 0
  /\ responses' = <<>>
  /\ errors' = <<>>
  /\ saved_responses' = <<>>
  /\ pc' = "loop"
  /\ rounds' = 1
  /\ op_pc' = "dispatch"
  /\ UNCHANGED <<first_failed, transport_failed, in_flight, arrived, reordered, waves_done>>
  /\ UNCHANGED <<operation, contacts, account_fields, op_raised, op_log, checked, upload_answer>>
  /\ UNCHANGED <<rvars, pvars, cvars>>

\* lines 197-199, 421-423, 438-439, 468-471, 490-492, 515-516: raise the
\* errors of the dispatch, or return
CheckErrors ==
  /\ op_pc = "dispatch"
  /\ pc = "done"
  /\ IF RaiseDue(errors)
       THEN op_pc' = "raised" /\ op_raised' = "RuntimeError: errors"
       ELSE op_pc' = "returned" /\ UNCHANGED op_raised
  /\ UNCHANGED <<operation, contacts, account_fields, op_log, checked, upload_answer>>
  /\ UNCHANGED <<dvars, rvars, pvars, cvars>>

\* an exception out of _handle_requests leaves the operation too
PropagateOp ==
  /\ op_pc = "dispatch"
  /\ pc = "raised"
  /\ op_pc' = "raised"
  /\ op_raised' = "transport"
  /\ UNCHANGED <<operation, contacts, account_fields, op_log, checked, upload_answer>>
  /\ UNCHANGED <<dvars, rvars, pvars, cvars>>

\* the operations that dispatch one request for each member of a list
ManyOps == {"add_dnc", "remove_dnc"}

\* the retry argument of their call of _handle_requests: line 364 passes
\* retry=True, line 405 passes nothing
RetryPassed(o) == o = "add_dnc"

\* add_dnc or remove_dnc has been called
OInitMany ==
  \E o \in ManyOps :
    /\ operation = o
    /\ contacts = <<>>
    /\ account_fields = {}
    /\ op_pc = "start"
    /\ op_raised = "none"
    /\ op_log = <<>>
    /\ checked = "no"
    /\ upload_answer = NoAnswer

\* lines 356-364 and 398-405: one descriptor for each number to add, expecting
\* 201, or for each id to delete, expecting 204, and the call of
\* _handle_requests
DispatchMany ==
  /\ operation \in ManyOps
  /\ op_pc = "start"
  /\ \E n \in 1..MaxLen :
       /\ requests_list' =
            [k \in 1..n |->
               Descriptor(k, IF operation = "add_dnc" THEN Status201 ELSE Status204)]
       /\ sent' = [k \in 1..n |-> 0]
       /\ \E srv \in Servers(n) : server' = srv
  /\ retry' = RetryPassed(operation)
  /\ current_retry_count' = 0
  /\ i' = 0
  /\ requests_awaiting_response' = <<>>
  /\ awaited' = 0
  /\ responses' = <<>>
  /\ errors' = <<>>
  /\ saved_responses' = <<>>
  /\ pc' = "loop"
  /\ rounds' = 1
  /\ op_pc' = "dispatch"
  /\ UNCHANGED <<first_failed, transport_failed, in_flight, arrived, reordered, waves_done>>
  /\ UNCHANGED <<operation, contacts, account_fields, op_raised, op_log, checked, upload_answer>>
  /\ UNCHANGED <<rvars, pvars, cvars>>

\* lines 365-367 and 406: the errors of the dispatch are returned, not raised
ReturnErrors ==
  /\ operation \in ManyOps
  /\ op_pc = "dispatch"
  /\ pc = "done"
  /\ op_pc' = "returned"
  /\ UNCHANGED <<operation, contacts, account_fields, op_raised, op_log, checked, upload_answer>>
  /\ UNCHANGED <<dvars, rvars, pvars, cvars>>

----------------------------------------------------------------------------
(* _handle_requests through the rate-limited session.get *)

\* the only CallHub instance of a rate-limited dispatch
Caller == 1

\* the rate_limit arguments of a rate-limited dispatch: every GENERAL budget;
\* bulk_create is not called
LiveRateLimits ==
  {[enabled |-> TRUE, GENERAL |-> g, BULK_CREATE |-> [calls |-> 1, period |-> 1]] :
     g \in [calls : 1..MaxCalls, period : 1..MaxPeriod]}

\* a list of up to MaxLen descriptors of session.get expecting 200, and a
\* service that answers every request, with the expected status or another
LInit ==
  \E n \in 1..MaxLen :
    \E srv \in {x \in Servers(n) : \A slot \in DOMAIN x.faults : x.faults[slot] # "down"} :
      \E rt \in BOOLEAN :
        /\ requests_list = MkRequests(n, <<>>)
        /\ retry = rt
        /\ current_retry_count = 0
        /\ i = 0
        /\ requests_awaiting_response = <<>>
        /\ awaited = 0
        /\ responses = <<>>
        /\ errors = <<>>
        /\ saved_responses = <<>>
        /\ pc = "loop"
        /\ server = srv
        /\ sent = [k \in 1..n |-> 0]
        /\ rounds = 1
        /\ first_failed = {}
        /\ transport_failed = {}
        /\ in_flight = {}
        /\ arrived = {}
        /\ reordered = FALSE
        /\ waves_done = 0

RECURSIVE SumUpTo(_, _)
SumUpTo(f, n) == IF n = 0 THEN 0 ELSE f[n] + SumUpTo(f, n - 1)

\* how many requests the dispatch has submitted
Submitted == SumUpTo(sent, Len(sent))

\* how many calls of session.get the limiter has let through since __init__
Granted == Len(admitted) - 1

\* the caller is inside the sleep of sleep_and_retry
Asleep(c) == pending[c] # <<>> /\ now < wake[c]

\* line 281: request["func"](...) enters the wrapper of session.get
CallGet ==
  /\ pc = "loop"
  /\ pending[Caller] = <<>>
  /\ Granted = Submitted
  /\ pending' = [pending EXCEPT ![Caller] = <<[method |-> "get", op |-> FALSE]>>]
  /\ issued' = [issued EXCEPT ![Caller] = now]
  /\ UNCHANGED <<rate_limit, now, last_reset, num_calls, wake, admitted>>
  /\ UNCHANGED <<dvars, pvars, cvars, ovars>>

\* lines 281-282: the wrapper has let the call through, the future is appended
SubmitGranted ==
  /\ pending[Caller] = <<>>
  /\ Granted = Submitted + 1
  /\ Submit

\* time passes while the caller sleeps in the wrapper: as in Tick, the calls
\* and the responses themselves take no time
Elapse ==
  /\ Asleep(Caller)
  /\ now' = now + 1
  /\ UNCHANGED <<rate_limit, last_reset, num_calls, pending, wake, issued, admitted>>
  /\ UNCHANGED <<dvars, pvars, cvars, ovars>>

----------------------------------------------------------------------------
(* Specifications *)

Init == DInit /\ RIdle /\ PIdle /\ CIdle /\ OIdle

Next == Submit \/ (\E f \in in_flight : Settle(f)) \/ AwaitResult \/ EndWave \/ Retry \/ Return

\* one dispatch by _handle_requests
Spec == Init /\ [][Next]_vars

InitRL == DIdle /\ RInit /\ PIdle /\ CIdle /\ OIdle

NextRL == Tick \/ (\E c \in Clients : Attempt(c)) \/ (\E c \in Clients, m \in Methods : Call(c, m))

\* a client making calls through its rate limited methods
SpecRL == InitRL /\ [][NextRL]_vars

InitPG == DIdle /\ RIdle /\ PInit /\ CIdle /\ OIdle

NextPG ==
  \/ GetFirstPage \/ RequestPages \/ Aggregate \/ Propagate
  \/ Submit \/ (\E f \in in_flight : Settle(f)) \/ AwaitResult \/ EndWave \/ Return

\* one paged fetch by _get_paged_data; its dispatch never retries (line 249)
SpecPG == InitPG /\ [][NextPG]_vars

InitMI == DIdle /\ RInitOf({1, 2}, TestedRateLimits) /\ PIdle /\ CIdle /\ OIdle

\* two clients of one process making calls, each through its own methods
SpecMI == InitMI /\ [][NextRL]_vars

InitDNC == DIdle /\ RIdle /\ PIdle /\ CInit /\ OIdle

NextDNC ==
  \/ \E numbers \in (SUBSET Phones) \ {{}}, dnc_list_id \in DncLists :
       AddDnc(numbers, dnc_list_id)
  \/ \E numbers \in DistinctNumberLists, dnc_list \in DncLists \cup {NoList} :
       RemoveDnc(numbers, dnc_list)

\* one client adding numbers to and removing numbers from do-not-contact
\* lists; no number is given twice in a call
SpecDNC == InitDNC /\ [][NextDNC]_vars

NextDNCAnyList ==
  \/ \E numbers \in (SUBSET Phones) \ {{}}, dnc_list_id \in DncLists :
       AddDnc(numbers, dnc_list_id)
  \/ \E numbers \in NumberLists, dnc_list \in DncLists \cup {NoList} :
       RemoveDnc(numbers, dnc_list)

\* the same client, called with any list of numbers
SpecDNCAnyList == InitDNC /\ [][NextDNCAnyList]_vars

InitOps == DIdle /\ RIdle /\ PIdle /\ CIdle /\ OInit

NextOps ==
  \/ CheckFields \/ Upload \/ DispatchOne \/ CheckErrors \/ PropagateOp
  \/ Submit \/ (\E f \in in_flight : Settle(f)) \/ AwaitResult \/ EndWave \/ Return

\* one call of bulk_create, create_contact or a single-resource operation
SpecOps == InitOps /\ [][NextOps]_vars

InitLive == LInit /\ RInitOf({Caller}, LiveRateLimits) /\ PIdle /\ CIdle /\ OIdle

\* the steps of the thread that runs _handle_requests
Dispatching ==
  \/ CallGet \/ Attempt(Caller) \/ SubmitGranted
  \/ AwaitResult \/ EndWave \/ Retry \/ Return

Answering == \E f \in in_flight : Settle(f)

NextLive == Dispatching \/ Answering \/ Elapse

\* one rate-limited dispatch: the thread keeps running, the clock keeps
\* going, and the service answers every request sent
SpecLive ==
  /\ InitLive /\ [][NextLive]_vars
  /\ WF_vars(Dispatching) /\ WF_vars(Answering) /\ WF_vars(Elapse)

InitMany == DIdle /\ RIdle /\ PIdle /\ CIdle /\ OInitMany

NextMany ==
  \/ DispatchMany \/ ReturnErrors \/ PropagateOp
  \/ Submit \/ (\E f \in in_flight : Settle(f)) \/ AwaitResult \/ EndWave \/ Retry \/ Return

\* the dispatch of one call of add_dnc or remove_dnc
SpecMany == InitMany /\ [][NextMany]_vars

----------------------------------------------------------------------------
(* Properties of the rate limiter *)

\* the admissions a limiter of class cl granted at a time in [t, t + length)
AdmissionsIn(cl, t, length) ==
  {k \in DOMAIN admitted :
     /\ admitted[k].method \in Limiters
     /\ ClassOf(admitted[k].method) = cl
     /\ admitted[k].time >= t
     /\ admitted[k].time < t + length}

\* C1: with rate limiting enabled, no window of one period, starting at any
\* instant, holds more granted admissions of a class than the class's calls.
C1_RollingWindow ==
  rate_limit.enabled =>
    \A cl \in {"GENERAL", "BULK_CREATE"} :
      \A t \in 0..now :
        Cardinality(AdmissionsIn(cl, t, rate_limit[cl].period)) <= rate_limit[cl].calls

\* the admissions the limiter l has counted, in order
AdmittedBy(l) == SelectSeq(admitted, LAMBDA a : a.by = l)

\* the calls of instance c that were let through, in order
AdmittedTo(c) == SelectSeq(admitted, LAMBDA a : a.client = c)

\* C16: when the budget of calls of a limiter is used up at one instant, at
\* least one period passes before the limiter grants the next admission,
\* however long after its construction the limiter was first used.
C16_FullPeriodAfterBudget ==
  rate_limit.enabled =>
    \A c \in Clients, m \in Limiters :
      LET granted == AdmittedBy(LimiterOf(c, m))
          budget == Calls(m)
      IN (Len(granted) > budget /\ granted[1].time = granted[budget].time) =>
           granted[budget + 1].time - granted[budget].time >= Period(m)

\* C17: two bulk_create calls made back to back by a client with a budget of
\* one BULK_CREATE call per period, its only operations, none of their inner
\* calls being held up by the GENERAL limiters, take between 0.95 and 1.05
\* periods from the first call to the return of the second.
C17_BackToBackBulkCreate ==
  rate_limit.enabled =>
    \A c \in Clients :
      LET log == AdmittedTo(c)
          ops == {x \in DOMAIN log : log[x].op}
          bulk == {x \in ops : log[x].method = "bulk_create"}
      IN (pending[c] = <<>> /\ Cardinality(ops) = 2 /\ bulk = ops) =>
           LET j == CHOOSE x \in ops : \A y \in ops : x <= y
               k == CHOOSE x \in ops : \A y \in ops : y <= x
               elapsed == log[Len(log)].time - log[j].issued
               period == Period("bulk_create")
           IN (/\ log[k].issued = log[k - 1].time
               /\ \A x \in DOMAIN log : (x > j /\ x # k) => log[x].time = log[x].issued)
              => (100 * elapsed >= 95 * period /\ 100 * elapsed <= 105 * period)

\* C18: the limiters belong to one client instance: whenever a call of an
\* instance is held up, that instance itself has used up the budget of the
\* method in the period before the call got through; the admissions of other
\* instances use up nothing of it.
C18_HeldUpByOwnCallsOnly ==
  \A x \in DOMAIN admitted :
    LET e == admitted[x]
        own == {k \in 1..(x - 1) :
                  /\ admitted[k].client = e.client
                  /\ admitted[k].method = e.method
                  /\ admitted[k].time >= e.time - Period(e.method)
                  /\ admitted[k].time < e.time}
    IN (e.by # <<>> /\ e.time > e.issued) => Cardinality(own) >= Calls(e.method)

\* both instances were let through to bulk_create at the same instant, the
\* second without waiting, and some call has been held up
C18_BothAtOnce ==
  /\ \E x, y \in DOMAIN admitted :
       /\ x < y
       /\ admitted[x].client # admitted[y].client
       /\ admitted[x].method = "bulk_create"
       /\ admitted[y].method = "bulk_create"
       /\ admitted[x].time = admitted[y].time
       /\ admitted[y].time = admitted[y].issued
  /\ \E z \in DOMAIN admitted : admitted[z].time > admitted[z].issued

\* C19: the gets and the posts of one instance draw on one budget: counted
\* together, no more of them than the calls of GENERAL are let through at one
\* instant, let alone within one period.
C19_GetAndPostShareTheBudget ==
  rate_limit.enabled =>
    \A c \in Clients, t \in 0..now :
      Cardinality({k \in DOMAIN admitted :
                     /\ admitted[k].client = c
                     /\ admitted[k].method \in {"get", "post"}
                     /\ admitted[k].time = t}) <= rate_limit.GENERAL.calls

\* C20: with rate limiting enabled, every get, post and delete that is sent
\* has been counted and let through by a limiter.
C20_EveryRequestPassesALimiter ==
  rate_limit.enabled =>
    \A k \in DOMAIN admitted :
      admitted[k].method \in {"get", "post", "delete"} => admitted[k].by # <<>>

\* C21: a client constructed with rate limiting disabled is never held up:
\* every call gets through at the instant it is made, counted by no limiter,
\* however many calls are made in a period.
C21_DisabledNeverHoldsUp ==
  ~rate_limit.enabled =>
    /\ \A k \in DOMAIN admitted :
         admitted[k].time = admitted[k].issued /\ admitted[k].by = <<>>
    /\ \A c \in Clients : wake[c] = 0

\* with rate limiting disabled, four calls, posts and bulk_create calls among
\* them, have got through within one period of either class
C21_ManyAtOnce ==
  /\ ~rate_limit.enabled
  /\ Len(admitted) >= 4
  /\ admitted[Len(admitted)].time = admitted[2].time
  /\ \E k \in DOMAIN admitted : admitted[k].method = "post"
  /\ Cardinality({k \in DOMAIN admitted : admitted[k].method = "bulk_create"}) >= 2

----------------------------------------------------------------------------
(* Properties of the dispatcher *)

Terminated == pc \in {"done", "raised"}

\* the number of descriptors the caller passed
NumRequests == Len(sent)

\* C2: at no time are more than 500 requests submitted and not yet settled, in
\* the initial round and in the retry round alike.
C2_AtMostBatchSizeInFlight == Cardinality(in_flight) <= batch_size

C2_FullWaveInRetryRound ==
  /\ Cardinality(in_flight) = batch_size
  /\ current_retry_count = 1
  /\ NumRequests > batch_size

\* C3: every request in flight was submitted after the last barrier and in the
\* running round: nothing is submitted after a barrier, and no retry round is
\* started, while a request submitted before it is unsettled.
C3_StrictBarrier ==
  \A f \in in_flight : f.wave = waves_done /\ f.round = current_retry_count

C3_SecondWaveAndRetryStarted ==
  /\ \E f \in in_flight : f.round = 1 /\ f.index >= 1
  /\ Cardinality(in_flight) >= 2
  /\ waves_done >= 3

\* C4: the retry round dispatches exactly the descriptors whose own first-round
\* request failed, each once; a first round with failures is followed by one retry
\* round, whose successes are added to the successes and whose failures are final.
C4_RetryExactlyTheFailed ==
  /\ current_retry_count = 1 =>
       /\ Len(requests_list) = Cardinality(first_failed)
       /\ {requests_list[k].id : k \in DOMAIN requests_list} = first_failed
  /\ (pc = "done" /\ retry /\ first_failed # {}) => rounds = 2

\* C5: each reported failure pairs the cause with the descriptor whose request
\* produced the failing response.
C5_FailureNamesItsOwnDescriptor ==
  \A k \in DOMAIN errors : errors[k][1] = errors[k][2].request

\* C6: a transport failure is an outcome of the dispatch like an unexpected
\* status: the dispatch does not end by raising, it settles and reports.
C6_TransportFailureIsAnOutcome ==
  transport_failed # {} =>
    /\ pc # "raised"
    /\ pc = "done" /\ ~retry =>
         \A id \in transport_failed : \E k \in DOMAIN errors : errors[k][1].id = id

\* C7: when every descriptor declares an expected status, a response is a
\* failure iff its status differs from the expected status of the descriptor
\* that produced it.
C7_ClassifiedByOwnExpectation ==
  (\A k \in DOMAIN requests_list : requests_list[k].expected_status # NoStatus) =>
    /\ \A k \in DOMAIN errors : Unexpected(errors[k][2].request, errors[k][2])
    /\ \A k \in DOMAIN responses : ~Unexpected(responses[k].request, responses[k])

\* C8: one call of _handle_requests runs at most two rounds, however many
\* descriptors fail in the retry round.
C8_AtMostTwoRounds == rounds <= 2

C8_RetryRoundEndedWithFailures ==
  pc = "done" /\ rounds = 2 /\ errors # <<>>

\* C9: with retry enabled, descriptors that all expect the same status and
\* exactly one descriptor failing in the first round: N successes and no failure
\* when its retry succeeds, N - 1 successes and one failure when its retry fails.
C9_OneFailingDescriptor ==
  (/\ pc = "done"
   /\ retry
   /\ Cardinality(first_failed) = 1
   /\ \A k \in DOMAIN requests_list : requests_list[k].expected_status = Status200) =>
    LET id == CHOOSE k \in first_failed : TRUE
        again == Outcome([id |-> id], 1)
    IN /\ again = "ok" => Len(responses) = NumRequests /\ Len(errors) = 0
       /\ again = "bad" => Len(responses) = NumRequests - 1 /\ Len(errors) = 1

\* C10: without retry, a dispatch sends every descriptor exactly once.
C10_EachSentOnceWithoutRetry ==
  ~retry =>
    /\ \A k \in DOMAIN sent : sent[k] <= 1
    /\ Terminated => \A k \in DOMAIN sent : sent[k] = 1

----------------------------------------------------------------------------
(* Properties of the paged fetch *)

RECURSIVE SentUpTo(_)
SentUpTo(n) == IF n = 0 THEN 0 ELSE sent[n] + SentUpTo(n - 1)

\* the requests the paged fetch has issued: the first page, and the pages
\* dispatched
RequestsIssued == (IF pager_pc \in {"idle", "start"} THEN 0 ELSE 1) + SentUpTo(Len(sent))

\* the pages requested whose request did not get the expected answer
FailedPages ==
  {k \in DOMAIN sent : sent[k] > 0 /\ Outcome(Descriptor(k, Status200), 0) # "ok"}

FirstPageServed == first_page # <<>> /\ first_page.status_code = Status200

\* C11: a paged fetch returns exactly min(total, limit) items, the first ones of
\* the pages put one after the other in ascending page order, none moved and
\* none left out, in whatever order the page requests settle.
C11_FirstItemsInPageOrder ==
  pager_pc = "returned" => paged_data = [k \in 1..CappedLimit(total, limit) |-> k]

\* a fetch of three pages, the last cut short by the limit, has returned
\* after a page settled before the page requested before it
C11_CutShortAfterReordering ==
  /\ pager_pc = "returned"
  /\ reordered
  /\ Len(requests_list) >= 3
  /\ Len(paged_data) < total
  /\ Len(paged_data) % per_page # 0

\* C12: a paged fetch with total > 0 and limit > 0 issues exactly
\* ceil(min(total, limit) / page_size) requests in total; for 55 contacts on
\* pages of 2 and a limit of 49 it issues 25 requests and returns 49 records.
C12_OnlyThePageRequests ==
  (pager_pc = "returned" /\ total > 0 /\ limit # 0) =>
    /\ RequestsIssued = NumPages(CappedLimit(total, limit), Len(first_page.results))
    /\ (total = 55 /\ per_page = 2 /\ limit = 49) =>
         (RequestsIssued = 25 /\ Len(paged_data) = 49)

\* C12 as the code has it: the fetch issues the request of the first page and
\* then one request for each of the pages 1..ceil(min(total, limit) / page_size),
\* one more request than pages; for 55 contacts on pages of 2 and a limit of 49
\* it issues 26 requests and returns 49 records.
C12_FirstPageThenEveryPage ==
  (pager_pc = "returned" /\ total > 0 /\ limit # 0) =>
    /\ RequestsIssued = 1 + NumPages(CappedLimit(total, limit), Len(first_page.results))
    /\ sent = [k \in 1..NumPages(CappedLimit(total, limit), Len(first_page.results)) |-> 1]
    /\ (total = 55 /\ per_page = 2 /\ limit = 49) =>
         (RequestsIssued = 26 /\ Len(paged_data) = 49)

C12_FortyNineOfFiftyFive ==
  /\ pager_pc = "returned"
  /\ total = 55 /\ per_page = 2 /\ limit = 49
  /\ RequestsIssued = 26
  /\ Len(paged_data) = 49

\* C13: a paged fetch whose first page reports a total of 0, or whose limit is
\* 0, issues exactly one request, the one of the first page, and returns the
\* empty list.
C13_NothingToFetch ==
  (pager_pc \notin {"idle", "start"} /\ (total = 0 \/ limit = 0)) =>
    /\ RequestsIssued = 1
    /\ pager_pc \in {"returned", "raised"}
    /\ FirstPageServed => (pager_pc = "returned" /\ paged_data = <<>>)

C13_LimitZeroOfSome ==
  pager_pc = "returned" /\ limit = 0 /\ total > 0 /\ RequestsIssued = 1

\* C14: the pages are dispatched with retry enabled: a fetch is not aborted
\* when every page request that failed would succeed on being submitted again.
C14_TransientPageFailureSurvived ==
  raised = "errors" =>
    \E k \in FailedPages : Outcome(Descriptor(k, Status200), 1) # "ok"

\* C15: if the request of any page, the first or a later one, has failed, the
\* fetch ends with an error, which carries the failures of the dispatch, and
\* never returns the items of the pages that were served.
C15_FailureIsFatal ==
  /\ pager_pc = "returned" => (FirstPageServed /\ FailedPages = {})
  /\ pager_pc = "raised" => paged_data = <<>>
  /\ (pager_pc = "dispatch" /\ pc = "done" /\ FailedPages # {}) => errors # <<>>
  /\ raised = "errors" => Len(errors) = Cardinality(FailedPages)

\* a fetch has raised the errors of its dispatch although pages were served
C15_RaisedDespiteServedPages ==
  /\ raised = "errors"
  /\ responses # <<>>
  /\ paged_data = <<>>

----------------------------------------------------------------------------
(* Properties of the do-not-contact cache *)

Removal == last_call.op = "remove_dnc"

\* C22: if every number passed to remove_dnc is a key of the cache, the ids
\* are taken from the cache without a fetch of the remote collection, and the
\* cache is left as it was.
C22_AllCachedNoFetch ==
  (Removal /\ last_call.numbers \subseteq DOMAIN last_call.cache_before) =>
    /\ last_call.fetches = 0
    /\ last_call.outcome = "returned"
    /\ last_call.deleted =
         IdsToPurge(last_call.numbers, last_call.dnc_list, last_call.cache_before)
    /\ dnc_cache = last_call.cache_before

\* a removal answered from the cache that issued deletions
C22_DeletedFromTheCache ==
  /\ Removal
  /\ last_call.cache_before # <<>>
  /\ last_call.numbers \subseteq DOMAIN last_call.cache_before
  /\ last_call.fetches = 0
  /\ last_call.deleted # {}

\* C23: if any number passed to remove_dnc is not a key of the cache, the
\* cache is replaced by the result of one fetch of the remote collection before
\* any id is looked up: afterwards it is exactly the fetched mapping, with
\* nothing kept of what it held before.
C23_MissRebuildsInFull ==
  (Removal /\ ~(last_call.numbers \subseteq DOMAIN last_call.cache_before)) =>
    /\ last_call.fetches = 1
    /\ last_call.outcome # "RuntimeError" =>
         dnc_cache = DncPhones(last_call.contacts_before)
    /\ last_call.outcome = "returned" =>
         last_call.deleted =
           IdsToPurge(last_call.numbers, last_call.dnc_list,
                      DncPhones(last_call.contacts_before))

\* a rebuild has dropped an entry that the cache held
C23_StaleEntryDropped ==
  /\ Removal
  /\ last_call.fetches = 1
  /\ last_call.outcome = "returned"
  /\ \E phone \in DOMAIN last_call.cache_before :
       \E e \in last_call.cache_before[phone] :
         phone \notin DOMAIN dnc_cache \/ e \notin dnc_cache[phone]

\* C24: looking up a number never looked up before triggers exactly one
\* fetch, and looking up numbers that were all looked up before triggers none,
\* also for a number that has no record in the remote collection.
C24_OneFetchPerUnseenKey ==
  Removal =>
    last_call.fetches =
      (IF last_call.numbers \subseteq last_call.requested_before THEN 0 ELSE 1)

\* C24 as the code has it: a removal fetches, once, exactly when one of its
\* numbers had no record in the remote collection at the last fetch that
\* succeeded (or no fetch has succeeded yet), whether or not the number was
\* looked up before.
C24_FetchUnlessOnRecordAtLastFetch ==
  Removal =>
    last_call.fetches =
      (IF \A number \in last_call.numbers :
            \E r \in last_call.snapshot_before : r.phone = number
         THEN 0 ELSE 1)

\* a number looked up before and without a record is fetched for again
C24_SeenButFetchedAgain ==
  /\ Removal
  /\ last_call.numbers \subseteq last_call.requested_before
  /\ last_call.fetches = 1
  /\ last_call.outcome = "KeyError"

\* C25: the writes of the client leave the cache alone: add_dnc and the
\* deletions of remove_dnc change no entry; the cache changes only by the
\* rebuild of a removal that missed, and then to the mapping fetched, entries
\* of the records deleted by that removal included.
C25_OnlyAMissChangesTheCache ==
  /\ last_call.op = "add_dnc" => dnc_cache = last_call.cache_before
  /\ dnc_cache # last_call.cache_before =>
       /\ Removal
       /\ ~(last_call.numbers \subseteq DOMAIN last_call.cache_before)
       /\ dnc_cache = DncPhones(last_call.contacts_before)

\* a removal has deleted a record whose entry is still in the cache
C25_DeletedButStillCached ==
  /\ Removal
  /\ \E id \in last_call.deleted \ last_call.errors :
       /\ id \notin {r.id : r \in dnc_contacts}
       /\ \E phone \in DOMAIN dnc_cache :
            \E e \in dnc_cache[phone] : e.dnc_contact_id = id

\* C26: after add_dnc(numbers, L) has created a record for every number, a
\* remove_dnc(numbers, L) that follows it and returns deletes every record the
\* add created, so that none of the numbers is on L afterwards, whatever the
\* client did before.
C26_RemoveUndoesAdd ==
  (Removal /\ last_call.right_after_add /\ last_call.outcome = "returned") =>
    /\ last_call.just_added \subseteq last_call.deleted
    /\ \A r \in dnc_contacts :
         ~(r.phone \in last_call.numbers /\ r.list = last_call.dnc_list)

----------------------------------------------------------------------------
(* Properties of bulk_create, create_contact and the single-resource
   operations *)

UploadsSent == Cardinality({k \in 1..Len(op_log) : op_log[k] = UploadRequest})
Dispatched == SentUpTo(Len(sent))
OpRequests == Len(op_log) + Dispatched
Finished == op_pc \in {"returned", "raised"}

\* the field name equals, ignoring case, a name of a field of the account
KnownIgnoringCase(f) == \E known \in account_fields : UpperName(f) = UpperName(known)
EveryFieldKnown == \A k \in 1..Len(contacts) : \A f \in contacts[k] : KnownIgnoringCase(f)

\* C27: the field check passes if and only if every field name used by any
\* record of the batch equals, ignoring case, the name of a field of the
\* account.
C27_CaseInsensitiveSubset ==
  checked \in {"passed", "mismatch"} => (checked = "passed" <=> EveryFieldKnown)

\* the check has passed a field that the account spells in another case
C27_PassedInAnotherCase ==
  /\ checked = "passed"
  /\ \E k \in 1..Len(contacts) : \E f \in contacts[k] : f \notin account_fields

\* C28: if a record of the batch has a field unknown to the account,
\* bulk_create and create_contact raise (the field mismatch, LookupError, once
\* the fields of the account have been read), and they send no upload and no
\* create request, whatever the other records are.
C28_FailsClosed ==
  (operation \in CheckedOps /\ ~EveryFieldKnown /\ op_pc # "start") =>
    /\ op_pc = "raised"
    /\ checked \in {"mismatch", "unread"}
    /\ checked = "mismatch" => op_raised = "LookupError"
    /\ UploadsSent = 0
    /\ Dispatched = 0

\* a batch was refused that has a record with known fields only
C28_ValidRecordHeldBack ==
  /\ operation = "bulk_create"
  /\ op_raised = "LookupError"
  /\ \E k \in 1..Len(contacts) : \A f \in contacts[k] : KnownIgnoringCase(f)
  /\ UploadsSent = 0

\* C29: an upload answered with a body that signals throttling makes
\* bulk_create raise its throttling error, and the upload has been sent
\* exactly once.
C29_ThrottledIsFatalAndNotRetried ==
  upload_answer = Throttled =>
    /\ op_pc = "raised"
    /\ op_raised = "RuntimeError: throttled"
    /\ UploadsSent = 1

\* an upload was throttled
C29_UploadThrottled ==
  /\ operation = "bulk_create"
  /\ upload_answer = Throttled
  /\ op_pc = "raised"

----------------------------------------------------------------------------
(* Further properties of _handle_requests *)

\* is the wave being waited for the last one of its round?
LastWave == i = Len(requests_list) - 1

\* C31: a list of descriptors is cut into consecutive waves of 500: every wave
\* that the dispatcher waits for, except possibly the last one of the round,
\* has exactly 500 requests.
C31_WavesOfBatchSize ==
  (pc = "await" /\ ~LastWave) => Len(requests_awaiting_response) = batch_size

\* C32: one outcome per descriptor: when the dispatch returns, with or without
\* a retry round, the responses and the failures it returns are together as
\* many as the descriptors it was called with.
C32_OneOutcomePerDescriptor ==
  pc = "done" => Len(responses) + Len(errors) = Len(sent)

\* a dispatch has returned successes of both rounds and failures
C32_ReturnedAfterRetryWithBoth ==
  /\ pc = "done"
  /\ rounds = 2
  /\ Len(responses) >= 2
  /\ errors # <<>>
  /\ Len(sent) >= 3

\* C36: when the dispatch has ended, by returning or by raising, no request
\* it has submitted is left without having been waited for.
C36_NoRequestLeftUnawaited ==
  Terminated => in_flight = {} /\ arrived = {}

----------------------------------------------------------------------------
(* Further properties of remove_dnc *)

\* the entries of the numbers of the last call in the cache it looked them up
\* in: all of them, or those of the list given
Selected ==
  {e \in UNION {dnc_cache[number] : number \in last_call.numbers \cap DOMAIN dnc_cache} :
     last_call.dnc_list = NoList \/ e.list_id = last_call.dnc_list}

\* C34: a remove_dnc that returns has sent one delete request for each record
\* selected in the cache, and no other delete: the records of the requested
\* numbers on the list given, or on any list if none is given.
C34_OneDeletePerSelectedRecord ==
  (Removal /\ last_call.outcome = "returned") =>
    /\ DOMAIN last_call.deletes = {e.dnc_contact_id : e \in Selected}
    /\ \A id \in DOMAIN last_call.deletes : last_call.deletes[id] = 1

\* C37: if the fetch of a rebuild fails, remove_dnc ends with the error of the
\* fetch, the cache is what it was before the call, and no delete request is
\* sent.
C37_FailedRebuildKeepsTheCache ==
  (Removal /\ last_call.outcome = "RuntimeError") =>
    /\ last_call.missed
    /\ dnc_cache = last_call.cache_before
    /\ last_call.deletes = <<>>
    /\ dnc_contacts = last_call.contacts_before

\* a rebuild has failed over a cache that held entries
C37_FailedOverAFilledCache ==
  /\ Removal
  /\ last_call.outcome = "RuntimeError"
  /\ last_call.cache_before # <<>>
  /\ last_call.cache_before # DncPhones(last_call.contacts_before)

\* C38: if a rebuild has succeeded and one of the requested numbers has no
\* record in the data fetched, remove_dnc fails with KeyError and has sent no
\* delete request, none for the requested numbers with records either; the
\* cache is the rebuilt mapping.
C38_MissingKeyFailsBeforeAnyDelete ==
  (/\ Removal
   /\ last_call.missed
   /\ last_call.outcome # "RuntimeError"
   /\ ~(last_call.numbers \subseteq DOMAIN DncPhones(last_call.contacts_before))) =>
    /\ last_call.outcome = "KeyError"
    /\ last_call.deletes = <<>>
    /\ dnc_contacts = last_call.contacts_before
    /\ dnc_cache = DncPhones(last_call.contacts_before)

\* a removal has failed for a missing number while another requested number
\* has a record that it would have deleted, and the cache has changed
C38_FailedWithARecordToDelete ==
  /\ Removal
  /\ last_call.outcome = "KeyError"
  /\ IdsToPurge(last_call.numbers, last_call.dnc_list, dnc_cache) # {}
  /\ dnc_cache # last_call.cache_before

----------------------------------------------------------------------------
(* Further properties of the rate limiters *)

\* entry k of the log is a call of bulk_create that ended with the field
\* mismatch: it made its first read of the fields and nothing else
Rejected(k) ==
  /\ admitted[k].method = "bulk_create"
  /\ admitted[k].op
  /\ k + 1 <= Len(admitted)
  /\ ~admitted[k + 1].op
  /\ IF k + 2 <= Len(admitted) THEN admitted[k + 2].op
                               ELSE pending[admitted[k].client] = <<>>

\* C35: a bulk_create that fails with the field mismatch has not waited for a
\* rate limiter and has not been counted by the limiter of bulk_create, so
\* that it does not hold up the next bulk_create.
C35_RejectedBatchTakesNoSlot ==
  \A k \in 1..Len(admitted) :
    Rejected(k) =>
      /\ admitted[k].time = admitted[k].issued
      /\ admitted[k].by = <<>>
      /\ \A j \in (k + 1)..Len(admitted) :
           (admitted[j].method = "bulk_create" /\ admitted[j].issued <= admitted[k].time + 1)
             => admitted[j].time = admitted[j].issued

----------------------------------------------------------------------------
(* Properties of the dispatch of add_dnc and remove_dnc *)

\* C33: add_dnc and remove_dnc both call the dispatcher with retry: when one
\* of them has returned and a request of its first round had failed, a retry
\* round has re-submitted the failures, once.
C33_ManyOpsRetryOnce ==
  (operation \in ManyOps /\ op_pc = "returned" /\ first_failed # {}) => rounds = 2

----------------------------------------------------------------------------
(* Termination of a rate-limited dispatch *)

\* C39: with rate limiting enabled and every request answered, a call of
\* _handle_requests returns, after at most two rounds: every admission the
\* limiter blocks is granted later, and every wave settles.
C39_DispatchReturns == <>(pc = "done" /\ rounds <= 2 /\ in_flight = {} /\ arrived = {})

\* a dispatch has returned after a retry round, and the limiter had made one
\* of its requests wait
C39_ReturnedAfterBlockedAdmission ==
  /\ pc = "done"
  /\ rounds = 2
  /\ rate_limit.enabled
  /\ \E k \in 2..Len(admitted) : admitted[k].time > admitted[k].issued

====
